---- MODULE Spec2Model ----
(***************************************************************************)
(* git-cc: the Conventional Commits parser (pkg/parser/parser.go) and the  *)
(* interactive composer (cmd/git-cc/main.go).                              *)
(*                                                                         *)
(* Text is a sequence of one-character strings, so that every parser works *)
(* on runes exactly as the Go code works on []rune.  The combinator        *)
(* primitives (Tag, TakeUntil, Sequence, ...) are not part of the source   *)
(* files at hand; they follow their documented contracts.                  *)
(***************************************************************************)
EXTENDS Integers, Sequences, FiniteSets

VARIABLES
    op,        \* which entry point this run exercises
    input,     \* the text handed to the entry point
    pc,        \* "call" before the entry point ran, "done" after
    hdr,       \* what ParseHeader returned: [header, err]
    rst,       \* what ParseRest returned: [rest, err]
    res,       \* what ParseCC did: [cc, err, outcome, headerRan, restRan]
    fields,    \* round trip: the commit array handed to the serializer
    msg,       \* round trip: the serializer's output
    viewing,   \* model.viewing
    commit,    \* model.commit
    inputs,    \* the Value() of the four input components
    choice,    \* the buffered channel main reads
    quit,      \* tea.Quit was returned
    exitCode,  \* main's exit status, NotExited while the program runs
    lastKey,   \* history: the last key Update handled and the step it was on
    entered    \* history: the Value() each step had when Enter last confirmed it

vars == <<op, input, pc, hdr, rst, res, fields, msg,
          viewing, commit, inputs, choice, quit, exitCode, lastKey, entered>>

parserVars == <<op, input, pc, hdr, rst, res>>
roundTripVars == <<fields, msg>>
wizardVars == <<viewing, commit, inputs, choice, quit, exitCode, lastKey, entered>>

---------------------------------------------------------------------------
(* Text helpers *)

Take(s, n) == SubSeq(s, 1, n)
Drop(s, n) == SubSeq(s, n + 1, Len(s))
StartsWith(s, p) == Len(p) <= Len(s) /\ Take(s, Len(p)) = p
Min(S) == CHOOSE i \in S : \A j \in S : i <= j
Contains(s, c) == \E i \in 1..Len(s) : s[i] = c

NL == "\n"
CR == "\r"
TAB == "\t"
SP == " "

---------------------------------------------------------------------------
(* Combinator core.  A parser is a value; Run applies it to a text and      *)
(* gives the parse node (ok, Type, Value, Children, Remaining) or Fail.     *)

Node(type, value, children, remaining) ==
    [ok |-> TRUE, Type |-> type, Value |-> value,
     Children |-> children, Remaining |-> remaining]

Fail ==
    [ok |-> FALSE, Type |-> "", Value |-> <<>>,
     Children |-> <<>>, Remaining |-> <<>>]

LiteralRune(c) == [kind |-> "LiteralRune", c |-> c]
Tag(s) == [kind |-> "Tag", s |-> s]
\* Regex for a pattern of the shape [class]+
Regex(class) == [kind |-> "Regex", class |-> class]
Empty == [kind |-> "Empty"]
Sequence(ps) == [kind |-> "Sequence", ps |-> ps]
Any(ps) == [kind |-> "Any", ps |-> ps]
Opt(p) == [kind |-> "Opt", p |-> p]
Many0(p) == [kind |-> "Many0", p |-> p]
TakeUntil(stop) == [kind |-> "TakeUntil", p |-> stop]
Delimeted(open, inner, close) ==
    [kind |-> "Delimeted", open |-> open, p |-> inner, close |-> close]
Marked(mark, p) == [kind |-> "Marked", mark |-> mark, p |-> p]

\* the text a composite match consumed
Consumed(in, remaining) == Take(in, Len(in) - Len(remaining))

RunLiteralRune(c, in) ==
    IF in # <<>> /\ in[1] = c THEN Node("", <<c>>, <<>>, Tail(in)) ELSE Fail

RunTag(s, in) ==
    IF StartsWith(in, s) THEN Node("", s, <<>>, Drop(in, Len(s))) ELSE Fail

RunRegex(class, in) ==
    LET others == {i \in 1..Len(in) : in[i] \notin class}
        n == IF others = {} THEN Len(in) ELSE Min(others) - 1
    IN IF n = 0 THEN Fail ELSE Node("", Take(in, n), <<>>, Drop(in, n))

RunEmpty(in) == IF in = <<>> THEN Node("", <<>>, <<>>, <<>>) ELSE Fail

RECURSIVE Run(_, _), RunAll(_, _), RunFirst(_, _), RunMany(_, _)

\* Sequence: the sub-results in order, or <<Fail>> when one fails
RunAll(ps, in) ==
    IF ps = <<>> THEN <<>>
    ELSE LET a == Run(Head(ps), in) IN
         IF ~a.ok THEN <<Fail>>
         ELSE LET rest == RunAll(Tail(ps), a.Remaining) IN
              IF rest # <<>> /\ ~rest[Len(rest)].ok THEN <<Fail>>
              ELSE <<a>> \o rest

\* Any: the first success in the declared order
RunFirst(ps, in) ==
    IF ps = <<>> THEN Fail
    ELSE LET a == Run(Head(ps), in) IN
         IF a.ok THEN a ELSE RunFirst(Tail(ps), in)

\* Many0: successes until the first failure
RunMany(p, in) ==
    LET a == Run(p, in) IN
    IF ~a.ok THEN <<>> ELSE <<a>> \o RunMany(p, a.Remaining)

Run(p, in) ==
    CASE p.kind = "LiteralRune" -> RunLiteralRune(p.c, in)
      [] p.kind = "Tag" -> RunTag(p.s, in)
      [] p.kind = "Regex" -> RunRegex(p.class, in)
      [] p.kind = "Empty" -> RunEmpty(in)
      [] p.kind = "Sequence" ->
            LET cs == RunAll(p.ps, in) IN
            IF cs # <<>> /\ ~cs[Len(cs)].ok THEN Fail
            ELSE LET remaining == IF cs = <<>> THEN in ELSE cs[Len(cs)].Remaining
                 IN Node("", Consumed(in, remaining), cs, remaining)
      [] p.kind = "Any" -> RunFirst(p.ps, in)
      [] p.kind = "Opt" ->
            LET a == Run(p.p, in) IN
            IF a.ok THEN a ELSE Node("", <<>>, <<>>, in)
      [] p.kind = "Many0" ->
            LET cs == RunMany(p.p, in)
                remaining == IF cs = <<>> THEN in ELSE cs[Len(cs)].Remaining
            IN Node("", Consumed(in, remaining), cs, remaining)
      [] p.kind = "TakeUntil" ->
            LET hits == {i \in 0..Len(in) : Run(p.p, Drop(in, i)).ok} IN
            IF hits = {} THEN Fail
            ELSE LET i == Min(hits) IN Node("", Take(in, i), <<>>, Drop(in, i))
      [] p.kind = "Delimeted" ->
            LET a == Run(p.open, in) IN
            IF ~a.ok THEN Fail ELSE
            LET b == Run(p.p, a.Remaining) IN
            IF ~b.ok THEN Fail ELSE
            LET c == Run(p.close, b.Remaining) IN
            IF ~c.ok THEN Fail
            ELSE Node(b.Type, b.Value, b.Children, c.Remaining)
      [] p.kind = "Marked" ->
            LET a == Run(p.p, in) IN
            IF a.ok THEN Node(p.mark, a.Value, a.Children, a.Remaining) ELSE Fail

\* \w of the regular expression syntax
WordRunes ==
    {"a","b","c","d","e","f","g","h","i","j","k","l","m","n","o","p","q","r",
     "s","t","u","v","w","x","y","z",
     "A","B","C","D","E","F","G","H","I","J","K","L","M","N","O","P","Q","R",
     "S","T","U","V","W","X","Y","Z",
     "0","1","2","3","4","5","6","7","8","9","_"}

---------------------------------------------------------------------------
(* Grammar layer *)

Newline == Marked("Newline", Any(<<LiteralRune(NL), Tag(<<CR, NL>>)>>))

DoubleNewline == Sequence(<<Newline, Newline>>)

ColonSep == Tag(<<":", SP>>)

BreakingChangeBang == Marked("BreakingChangeBang", Tag(<<"!">>))

CommitType ==
    Marked("CommitType",
           TakeUntil(Any(<<BreakingChangeBang, Tag(<<":">>), Tag(<<"(">>)>>)))

Scope ==
    Marked("Scope",
           Delimeted(Tag(<<"(">>), TakeUntil(Tag(<<")">>)), Tag(<<")">>)))

Context == Sequence(<<CommitType, Opt(Scope), Opt(BreakingChangeBang)>>)

BreakingChange ==
    Any(<<Tag(<<"B","R","E","A","K","I","N","G",SP,"C","H","A","N","G","E">>),
          Tag(<<"B","R","E","A","K","I","N","G","-","C","H","A","N","G","E">>)>>)

KebabWord == Regex(WordRunes \cup {"-"})

FooterToken ==
    Any(<<Marked("BreakingChange", Sequence(<<BreakingChange, ColonSep>>)),
          Sequence(<<KebabWord, Any(<<ColonSep, Tag(<<SP, "#">>)>>)>>)>>)

\* a buggy Body: runs to the end of the text, footers included
Body_UntilEnd == Sequence(<<Newline, TakeUntil(Empty)>>)

Body == Sequence(<<Newline, TakeUntil(Any(<<Empty, FooterToken>>))>>)

Footer == Sequence(<<FooterToken, TakeUntil(Any(<<Empty, FooterToken>>))>>)

Footers == Many0(Footer)

---------------------------------------------------------------------------
(* Parse entry points *)

NoText == <<>>

EmptyHeader ==
    [Type |-> NoText, Scope |-> NoText, Description |-> NoText,
     BreakingChange |-> FALSE]

EmptyRest == [Body |-> NoText, Footers |-> <<>>, BreakingChange |-> FALSE]

EmptyCC ==
    [Type |-> NoText, Scope |-> NoText, Description |-> NoText,
     Body |-> NoText, Footers |-> <<>>, BreakingChange |-> FALSE]

\* the loop over ctx.Children of ParseHeader
RECURSIVE HeaderFromChildren(_, _)
HeaderFromChildren(children, header) ==
    IF children = <<>> THEN header
    ELSE LET child == Head(children)
             next == CASE child.Type = "BreakingChangeBang" ->
                              [header EXCEPT !.BreakingChange = TRUE]
                       [] child.Type = "Scope" ->
                              [header EXCEPT !.Scope = child.Value]
                       [] child.Type = "CommitType" ->
                              [header EXCEPT !.Type = child.Value]
                       [] OTHER -> header
         IN HeaderFromChildren(Tail(children), next)

\* the ": " + description suffix ParseHeader matches after the context
Description == Sequence(<<ColonSep, TakeUntil(Empty)>>)

\* a buggy ParseHeader: a missing description is returned as a success
ParseHeader_NilOnMissingDescription(head) ==
    LET ctx == Run(Context, head) IN
    IF ~ctx.ok THEN [header |-> EmptyHeader, err |-> "Context"]
    ELSE LET header == HeaderFromChildren(ctx.Children, EmptyHeader)
             desc == Run(Description, ctx.Remaining)
         IN [header |-> IF desc.ok
                        THEN [header EXCEPT !.Description = desc.Children[2].Value]
                        ELSE header,
             err |-> "nil"]

ParseHeader(head) ==
    LET ctx == Run(Context, head) IN
    IF ~ctx.ok THEN [header |-> EmptyHeader, err |-> "Context"]
    ELSE LET header == HeaderFromChildren(ctx.Children, EmptyHeader)
             desc == Run(Description, ctx.Remaining)
         IN IF desc.ok
            THEN [header |-> [header EXCEPT !.Description = desc.Children[2].Value],
                  err |-> "nil"]
            ELSE [header |-> header, err |-> "Description"]

\* the loop over result.Children of ParseRest
FooterValues(children) == [i \in 1..Len(children) |-> children[i].Value]
AnyBreakingToken(children) ==
    \E i \in 1..Len(children) : children[i].Children[1].Type = "BreakingChange"

ParseRest(in) ==
    LET body == Run(Body, in) IN
    IF ~body.ok THEN [rest |-> EmptyRest, err |-> "Body"]
    ELSE LET footers == Run(Footers, body.Remaining)
         IN [rest |-> [Body |-> body.Children[2].Value,
                       Footers |-> FooterValues(footers.Children),
                       BreakingChange |-> AnyBreakingToken(footers.Children)],
             err |-> "nil"]

\* strings.SplitN(s, sep, 2)
SplitN2(s, sep) ==
    LET at == {i \in 0..(Len(s) - Len(sep)) : StartsWith(Drop(s, i), sep)} IN
    IF at = {} THEN <<s>>
    ELSE LET i == Min(at) IN <<Take(s, i), Drop(s, i + Len(sep))>>

\* strings.TrimRight(s, cutset)
TrimRight(s, cutset) ==
    LET keep == {i \in 1..Len(s) : s[i] \notin cutset} IN
    IF keep = {} THEN <<>>
    ELSE Take(s, CHOOSE i \in keep : \A j \in keep : j <= i)

splitOutFirstLine(s) ==
    LET byCRLF == SplitN2(s, <<CR, NL>>)
        result == IF Len(byCRLF) = 1 THEN SplitN2(s, <<NL>>) ELSE byCRLF
    IN IF Len(result) = 1 THEN <<result[1], NoText>> ELSE <<result[1], result[2]>>

\* a buggy merge: the footers' flag replaces the header's
MergeRest_Overwrite(cc, rest) ==
    [cc EXCEPT !.Body = rest.Body,
               !.Footers = rest.Footers,
               !.BreakingChange = rest.BreakingChange]

\* ParseCC's merge of the parsed rest into the record
MergeRest(cc, rest) ==
    [cc EXCEPT !.Body = rest.Body,
               !.Footers = rest.Footers,
               !.BreakingChange = cc.BreakingChange \/ rest.BreakingChange]

\* outcome: "return" when ParseCC returns to its caller (err tells how),
\* "panic" when it aborts in panic(headerErr) or panic(restErr).
CCResult(cc, err, outcome, headerRan, restRan) ==
    [cc |-> cc, err |-> err, outcome |-> outcome,
     headerRan |-> headerRan, restRan |-> restRan]

ParseCC(fullCommit) ==
    LET split == splitOutFirstLine(fullCommit)
        firstLine == split[1]
    IN
    IF Len(firstLine) = 0
    THEN CCResult(EmptyCC, "empty commit", "return", FALSE, FALSE)
    ELSE
    LET h == ParseHeader(firstLine) IN
    IF h.err # "nil"
    THEN CCResult(EmptyCC, h.err, "panic", TRUE, FALSE)
    ELSE
    LET cc1 == [EmptyCC EXCEPT !.Type = h.header.Type,
                               !.Scope = h.header.Scope,
                               !.BreakingChange = h.header.BreakingChange]
        otherLines == TrimRight(split[2], {NL, CR, TAB, SP})
    IN
    IF Len(otherLines) > 0
    THEN LET r == ParseRest(otherLines) IN
         IF r.err # "nil"
         THEN CCResult(cc1, r.err, "panic", TRUE, TRUE)
         ELSE CCResult(MergeRest(cc1, r.rest), "nil", "return", TRUE, TRUE)
    ELSE CCResult(cc1, "nil", "return", TRUE, FALSE)

---------------------------------------------------------------------------
(* The composer: cmd/git-cc/main.go *)

commitTypeIndex == 0
scopeIndex == 1
shortDescriptionIndex == 2
breakingChangeIndex == 3
doneIndex == 4

Steps == commitTypeIndex..breakingChangeIndex

EmptyCommit == [i \in Steps |-> NoText]

ready(c) == Len(c[commitTypeIndex]) > 0 /\ Len(c[shortDescriptionIndex]) > 0

contextValue(c) ==
    c[commitTypeIndex]
    \o (IF c[scopeIndex] # NoText THEN <<"(">> \o c[scopeIndex] \o <<")">> ELSE NoText)

BreakingChangeFooterToken ==
    <<"B","R","E","A","K","I","N","G",SP,"C","H","A","N","G","E",":",SP>>

\* a buggy serializer: the ! marker is left out of the header
value_NoBang(c) ==
    LET breakingChange == c[breakingChangeIndex] IN
    contextValue(c)
    \o <<":", SP>> \o c[shortDescriptionIndex] \o <<NL>>
    \o (IF breakingChange # NoText
        THEN <<NL>> \o BreakingChangeFooterToken \o breakingChange \o <<NL>>
        ELSE NoText)

value(c) ==
    LET breakingChange == c[breakingChangeIndex] IN
    contextValue(c)
    \o (IF breakingChange # NoText THEN <<"!">> ELSE NoText)
    \o <<":", SP>> \o c[shortDescriptionIndex] \o <<NL>>
    \o (IF breakingChange # NoText
        THEN <<NL>> \o BreakingChangeFooterToken \o breakingChange \o <<NL>>
        ELSE NoText)

\* what model.done() sends on m.choice
done(c) == IF ready(c) THEN value(c) ELSE NoText

\* capacity of the channel made in main
ChoiceCap == 1

\* exitCode while main has not returned or exited; then "0" or "1"
NotExited == "running"

\* The effect of Update on (viewing, commit); sent is what done() put on the
\* channel (at most one message), quit whether tea.Quit was returned, exit
\* whether the handler called os.Exit(1).
Step(v, c, sent, q, exit) ==
    [viewing |-> v, commit |-> c, sent |-> sent, quit |-> q, exit |-> exit]

KeyCancel(v, c) == Step(v, c, <<done(c)>>, TRUE, FALSE)

KeyShiftTab(v, c) ==
    Step(IF v > commitTypeIndex THEN v - 1 ELSE v, c, <<>>, FALSE, FALSE)

\* a buggy Enter: the last step has no case of its own and advances like
\* the others
KeyEnter_LastStepAdvances(v, c, in) ==
    CASE v = scopeIndex ->
            Step(v + 1, c, <<>>, FALSE, FALSE)
      [] v = doneIndex ->
            Step(v, c, <<>>, FALSE, TRUE)
      [] OTHER ->
            Step(v + 1, [c EXCEPT ![v] = in[v]], <<>>, FALSE, FALSE)

KeyEnter(v, c, in) ==
    CASE v = scopeIndex ->
            Step(v + 1, c, <<>>, FALSE, FALSE)
      [] v = breakingChangeIndex ->
            LET c1 == [c EXCEPT ![breakingChangeIndex] = in[breakingChangeIndex]] IN
            IF ready(c1) THEN Step(v, c1, <<done(c1)>>, TRUE, FALSE)
            ELSE IF c1[commitTypeIndex] = NoText
                 THEN Step(commitTypeIndex, c1, <<>>, FALSE, FALSE)
            ELSE IF c1[shortDescriptionIndex] = NoText
                 THEN Step(shortDescriptionIndex, c1, <<>>, FALSE, FALSE)
            ELSE Step(v, c1, <<>>, FALSE, FALSE)
      [] v = doneIndex ->
            Step(v, c, <<>>, FALSE, TRUE)
      [] OTHER ->
            Step(v + 1, [c EXCEPT ![v] = in[v]], <<>>, FALSE, FALSE)

---------------------------------------------------------------------------
(* Inputs *)

MaxHeadFrags == 3
MaxTailFrags == 4
MaxFieldRunes == 3

\* every concatenation of at most n fragments of F
RECURSIVE Strings(_, _)
Strings(F, n) ==
    IF n = 0 THEN {NoText}
    ELSE LET S == Strings(F, n - 1) IN S \cup {s \o f : s \in S, f \in F}

HeadFrags == {<<"a">>, <<"(", "b", ")">>, <<"!">>, <<":", SP>>, <<":">>, <<"(">>}

TailFrags ==
    {<<NL>>, <<CR>>, <<"b">>, BreakingChangeFooterToken,
     <<"B","R","E","A","K","I","N","G","-","C","H","A","N","G","E">>,
     <<":", SP>>, <<SP, "#">>}

Heads == Strings(HeadFrags, MaxHeadFrags)
Tails == Strings(TailFrags, MaxTailFrags)

\* first lines and remainders that ParseCC is run on with every tail and
\* every head, respectively
CCHeads ==
    {NoText, <<"a">>, <<"a", ":", SP, "a">>, <<"a", "!", ":", SP, "a">>,
     <<"a", "(", "b", ")", "!", ":", SP, "a">>}

CCTails ==
    {NoText, <<NL>>, <<NL, "b">>, <<NL, NL, "b", NL, NL, "b">>,
     <<NL, NL, "k", ":", SP, "v">>,
     <<NL, NL>> \o BreakingChangeFooterToken \o <<"b", NL>>,
     <<CR, NL, CR, NL, "b", SP, "#", "1">>,
     <<NL, "b", CR, NL, "b">>}

Scenario ==
    <<"f","e","a","t","(","p","a","r","s","e","r",")","!",":",SP,
      "s","u","p","p","o","r","t",SP,"s","c","o","p","e","s",NL,NL>>
    \o BreakingChangeFooterToken
    \o <<"o","l","d",SP,"A","P","I",SP,"r","e","m","o","v","e","d",NL>>

CCInputs ==
    {h \o t : h \in CCHeads, t \in Tails}
    \cup {h \o t : h \in Heads, t \in CCTails}
    \cup {Scenario}

Ops == {"ParseHeader", "ParseRest", "ParseCC"}

InputsOf(o) ==
    CASE o = "ParseHeader" -> Heads
      [] o = "ParseRest" -> Tails
      [] o = "ParseCC" -> CCInputs

\* the runes a round-trip field is made of
FieldRunes == {"a", "!", ":", "(", ")", SP, NL}

FieldTexts == Strings({<<r>> : r \in FieldRunes}, MaxFieldRunes)

BreakingTexts == {NoText, <<"x", CR, NL, "y">>}

---------------------------------------------------------------------------
(* The parser, run on every input *)

NoHeaderResult == [header |-> EmptyHeader, err |-> "nil"]
NoRestResult == [rest |-> EmptyRest, err |-> "nil"]
NoCCResult == CCResult(EmptyCC, "nil", "none", FALSE, FALSE)

ParserIdle ==
    /\ op = "none" /\ input = NoText
    /\ rst = NoRestResult /\ res = NoCCResult

RoundTripIdle == fields = EmptyCommit /\ msg = NoText

WizardIdle ==
    /\ viewing = commitTypeIndex /\ commit = EmptyCommit
    /\ inputs = EmptyCommit /\ choice = <<>> /\ quit = FALSE
    /\ exitCode = NotExited
    /\ lastKey = [key |-> "none", at |-> commitTypeIndex]
    /\ entered = EmptyCommit

Init ==
    /\ op \in Ops
    /\ input \in InputsOf(op)
    /\ pc = "call"
    /\ hdr = NoHeaderResult
    /\ rst = NoRestResult
    /\ res = NoCCResult
    /\ RoundTripIdle
    /\ WizardIdle

CallParseHeader ==
    /\ pc = "call" /\ op = "ParseHeader"
    /\ hdr' = ParseHeader(input)
    /\ pc' = "done"
    /\ UNCHANGED <<op, input, rst, res, roundTripVars, wizardVars>>

CallParseRest ==
    /\ pc = "call" /\ op = "ParseRest"
    /\ rst' = ParseRest(input)
    /\ pc' = "done"
    /\ UNCHANGED <<op, input, hdr, res, roundTripVars, wizardVars>>

CallParseCC ==
    /\ pc = "call" /\ op = "ParseCC"
    /\ res' = ParseCC(input)
    /\ pc' = "done"
    /\ UNCHANGED <<op, input, hdr, rst, roundTripVars, wizardVars>>

Next == CallParseHeader \/ CallParseRest \/ CallParseCC

Spec == Init /\ [][Next]_vars

---------------------------------------------------------------------------
(* Serialize, then parse the first line back *)

RoundTripInit ==
    /\ \E w \in FieldTexts : \E i \in 0..Len(w) : \E j \in i..Len(w) :
       \E b \in BreakingTexts :
          fields = [k \in Steps |->
                      CASE k = commitTypeIndex -> SubSeq(w, 1, i)
                        [] k = scopeIndex -> SubSeq(w, i + 1, j)
                        [] k = shortDescriptionIndex -> SubSeq(w, j + 1, Len(w))
                        [] k = breakingChangeIndex -> b]
    /\ msg = NoText
    /\ pc = "fields"
    /\ hdr = NoHeaderResult
    /\ ParserIdle
    /\ WizardIdle

Serialize ==
    /\ pc = "fields"
    /\ msg' = value(fields)
    /\ pc' = "serialized"
    /\ UNCHANGED <<op, input, hdr, rst, res, fields, wizardVars>>

\* the text before the first newline
FirstLine(s) ==
    IF Contains(s, NL) THEN Take(s, Min({i \in 1..Len(s) : s[i] = NL}) - 1) ELSE s

ParseFirstLine ==
    /\ pc = "serialized"
    /\ hdr' = ParseHeader(FirstLine(msg))
    /\ pc' = "parsed"
    /\ UNCHANGED <<op, input, rst, res, fields, msg, wizardVars>>

RoundTripNext == Serialize \/ ParseFirstLine

RoundTripSpec == RoundTripInit /\ [][RoundTripNext]_vars

---------------------------------------------------------------------------
(* The composer driven by key events *)

\* what Value() of each input component can be
TypeValues == {NoText, <<"f","i","x">>}
ScopeValues == {NoText, <<"c","l","i">>}
DescriptionValues == {NoText, <<"d">>}
BreakingValues == {NoText, <<"x">>}

ValuesOf(v) ==
    CASE v = commitTypeIndex -> TypeValues
      [] v = scopeIndex -> ScopeValues
      [] v = shortDescriptionIndex -> DescriptionValues
      [] v = breakingChangeIndex -> BreakingValues

WizardInit ==
    /\ viewing = commitTypeIndex
    /\ commit = EmptyCommit
    /\ \E t \in TypeValues, sc \in ScopeValues :
          inputs = [EmptyCommit EXCEPT ![commitTypeIndex] = t, ![scopeIndex] = sc]
    /\ choice = <<>>
    /\ quit = FALSE
    /\ exitCode = NotExited
    /\ lastKey = [key |-> "none", at |-> commitTypeIndex]
    /\ entered = EmptyCommit
    /\ pc = "ui"
    /\ hdr = NoHeaderResult
    /\ ParserIdle
    /\ RoundTripIdle

\* Update applies one key's effect; a send needs room in the channel
Apply(key, st) ==
    /\ Len(choice) + Len(st.sent) <= ChoiceCap
    /\ viewing' = st.viewing
    /\ commit' = st.commit
    /\ choice' = choice \o st.sent
    /\ quit' = st.quit
    /\ exitCode' = IF st.exit THEN "1" ELSE exitCode
    /\ lastKey' = [key |-> key, at |-> viewing]

Running == pc = "ui" /\ ~quit /\ exitCode = NotExited

PressCtrlC ==
    /\ Running
    /\ Apply("ctrl+c", KeyCancel(viewing, commit))
    /\ UNCHANGED <<pc, inputs, entered, parserVars, roundTripVars>>

PressCtrlD ==
    /\ Running
    /\ Apply("ctrl+d", KeyCancel(viewing, commit))
    /\ UNCHANGED <<pc, inputs, entered, parserVars, roundTripVars>>

PressShiftTab ==
    /\ Running
    /\ Apply("shift+tab", KeyShiftTab(viewing, commit))
    /\ UNCHANGED <<pc, inputs, entered, parserVars, roundTripVars>>

PressEnter ==
    /\ Running
    /\ Apply("enter", KeyEnter(viewing, commit, inputs))
    /\ entered' = IF viewing \in Steps
                  THEN [entered EXCEPT ![viewing] = inputs[viewing]]
                  ELSE entered
    /\ UNCHANGED <<pc, inputs, parserVars, roundTripVars>>

\* any other key goes to the current component, whose Value() may change
PressOther ==
    /\ Running
    /\ viewing \in Steps
    /\ \E val \in ValuesOf(viewing) :
          inputs' = [inputs EXCEPT ![viewing] = val]
    /\ lastKey' = [key |-> "other", at |-> viewing]
    /\ UNCHANGED <<pc, viewing, commit, choice, quit, exitCode, entered,
                   parserVars, roundTripVars>>

\* main after ui.Start() returned: r := <-choice
MainReceive ==
    /\ pc = "ui" /\ quit /\ exitCode = NotExited
    /\ choice # <<>>
    /\ exitCode' = IF Head(choice) = NoText THEN "1" ELSE "0"
    /\ choice' = Tail(choice)
    /\ UNCHANGED <<pc, viewing, commit, inputs, quit, lastKey, entered,
                   parserVars, roundTripVars>>

WizardNext ==
    \/ PressCtrlC \/ PressCtrlD \/ PressShiftTab \/ PressEnter \/ PressOther
    \/ MainReceive

WizardSpec == WizardInit /\ [][WizardNext]_vars

---------------------------------------------------------------------------
(* What the claims speak of, stated without the parsers *)

NoneOf(s, runes) == \A i \in 1..Len(s) : s[i] \notin runes

\* Where a header's context ends, read off the line itself: the type runs to
\* the first of ! : ( ; a scope is a parenthesised group right after it; the
\* marker is a ! right after that.
HasContext(line) == ~NoneOf(line, {"!", ":", "("})

ReadContext(line) ==
    LET i == Min({k \in 1..Len(line) : line[k] \in {"!", ":", "("}}) - 1
        closes == {k \in (i + 2)..Len(line) : line[k] = ")"}
        scoped == line[i + 1] = "(" /\ closes # {}
        p == IF scoped THEN Min(closes) ELSE i
        banged == p + 1 <= Len(line) /\ line[p + 1] = "!"
        q == IF banged THEN p + 1 ELSE p
    IN [Type |-> Take(line, i),
        Scope |-> IF scoped THEN SubSeq(line, i + 2, p - 1) ELSE NoText,
        BreakingChange |-> banged,
        rest |-> Drop(line, q)]

WellFormedHeader(line) ==
    HasContext(line) /\ StartsWith(ReadContext(line).rest, <<":", SP>>)

DescriptionOf(line) == Drop(ReadContext(line).rest, 2)

BreakingFooterTokens ==
    {BreakingChangeFooterToken,
     <<"B","R","E","A","K","I","N","G","-","C","H","A","N","G","E",":",SP>>}

IsBreakingFooter(footer) == \E tok \in BreakingFooterTokens : StartsWith(footer, tok)

\* a footer token begins the text s
FooterTokenAt(s) ==
    \/ IsBreakingFooter(s)
    \/ \E n \in 1..Len(s) :
          /\ \A i \in 1..n : s[i] \in WordRunes \cup {"-"}
          /\ \/ StartsWith(Drop(s, n), <<":", SP>>)
             \/ StartsWith(Drop(s, n), <<SP, "#">>)

HasBlankLine(s) ==
    \E i \in 0..Len(s) :
       \E a, b \in {<<NL>>, <<CR, NL>>} : StartsWith(Drop(s, i), a \o b)

BeginsWithLineEnd(s) == StartsWith(s, <<NL>>) \/ StartsWith(s, <<CR, NL>>)

CCDone == op = "ParseCC" /\ pc = "done"
CCReturned == CCDone /\ res.outcome = "return" /\ res.err = "nil"
HeaderDone == op = "ParseHeader" /\ pc = "done"
RestDone == op = "ParseRest" /\ pc = "done"

\* the header line ParseCC works on
HeaderLineOf(s) == splitOutFirstLine(s)[1]

---------------------------------------------------------------------------
(* Claims *)

\* C1: when ParseCC returns a record for a text whose first line is a
\* well-formed header type(scope)!: description, the record's type, scope and
\* description are the header's, and a header marker makes it breaking.
C1_RecordHasHeaderFields ==
    (CCReturned /\ WellFormedHeader(HeaderLineOf(input))
                /\ ReadContext(HeaderLineOf(input)).Type # NoText) =>
        LET line == HeaderLineOf(input) h == ReadContext(line) IN
        /\ res.cc.Type = h.Type
        /\ res.cc.Scope = h.Scope
        /\ res.cc.Description = DescriptionOf(line)
        /\ h.BreakingChange => res.cc.BreakingChange

\* C3: ParseCC never aborts: whatever the input, it returns to its caller,
\* and a failed header or body parse comes back as a non-nil error.
C3_ParseCCNeverAborts ==
    CCDone => res.outcome = "return"

\* C4: on every successful ParseCC, BreakingChange is exactly: the header has
\* the ! marker, or some parsed footer starts with a BREAKING CHANGE token.
C4_BreakingChangeIsUnion ==
    CCReturned =>
        (res.cc.BreakingChange <=>
            \/ ReadContext(HeaderLineOf(input)).BreakingChange
            \/ \E i \in 1..Len(res.cc.Footers) : IsBreakingFooter(res.cc.Footers[i]))

\* C4 witness: no marker in the header, a BREAKING CHANGE footer, and the
\* record is breaking.
C4_Witness ==
    /\ CCReturned
    /\ ~ReadContext(HeaderLineOf(input)).BreakingChange
    /\ \E i \in 1..Len(res.cc.Footers) : IsBreakingFooter(res.cc.Footers[i])
    /\ res.cc.BreakingChange

\* C5 as stated: the body ParseRest returns never contains a blank line.
C5_BodyStopsAtBlankLine ==
    (RestDone /\ rst.err = "nil") => ~HasBlankLine(rst.rest.Body)

\* C5 amended: ParseRest fails exactly when the text does not begin with a
\* newline; otherwise the body is the text after that newline up to, and not
\* including, the first position where a footer token begins, or up to the
\* end of the text when no footer token begins anywhere (blank lines included).
C5_BodyStopsAtFooterOrEnd ==
    RestDone =>
        /\ (rst.err = "nil") <=> BeginsWithLineEnd(input)
        /\ (rst.err = "nil") =>
              LET nl == IF StartsWith(input, <<NL>>) THEN 1 ELSE 2
                  after == Drop(input, nl)
                  body == rst.rest.Body
              IN /\ StartsWith(after, body)
                 /\ \/ Len(body) = Len(after)
                    \/ FooterTokenAt(Drop(after, Len(body)))
                 /\ \A i \in 0..(Len(body) - 1) : ~FooterTokenAt(Drop(after, i))

\* C5 witness: a body with a blank line inside, followed by a footer.
C5_Witness ==
    /\ RestDone /\ rst.err = "nil"
    /\ HasBlankLine(rst.rest.Body)
    /\ Len(rst.rest.Footers) > 0

\* C6: when the context matches but ": " + description does not match what is
\* left, ParseHeader returns the context's type, scope and marker, an empty
\* description, and a non-nil error.
C6_MissingDescriptionIsAnError ==
    (HeaderDone /\ HasContext(input) /\ ~WellFormedHeader(input)) =>
        LET h == ReadContext(input) IN
        /\ hdr.err # "nil"
        /\ hdr.header = [Type |-> h.Type, Scope |-> h.Scope,
                         Description |-> NoText,
                         BreakingChange |-> h.BreakingChange]

\* C6 witness: type, scope and marker were read and the description is missing.
C6_Witness ==
    /\ HeaderDone /\ HasContext(input) /\ ~WellFormedHeader(input)
    /\ hdr.header.Type # NoText /\ hdr.header.Scope # NoText
    /\ hdr.header.BreakingChange
    /\ hdr.err # "nil"

\* C7: ParseCC returns the "empty commit" error, without running the header
\* or body grammar, exactly for the texts whose first line is empty: the empty
\* text and every text that begins with a line terminator.
C7_EmptyFirstLineIsEmptyCommit ==
    CCDone =>
        /\ (input = NoText \/ BeginsWithLineEnd(input))
              <=> (res.outcome = "return" /\ res.err = "empty commit")
        /\ res.err = "empty commit" => ~res.headerRan /\ ~res.restRan


RoundTripped == pc = "parsed"

FieldsRecovered ==
    /\ hdr.err = "nil"
    /\ hdr.header = [Type |-> fields[commitTypeIndex],
                     Scope |-> fields[scopeIndex],
                     Description |-> fields[shortDescriptionIndex],
                     BreakingChange |-> fields[breakingChangeIndex] # NoText]

\* C2 as stated: for a type without ! : ( , a scope without ) and a
\* description without newline, parsing the first line of the serialized
\* message recovers type, scope, marker and description with no error.
C2_RoundTripAsStated ==
    (/\ RoundTripped
     /\ NoneOf(fields[commitTypeIndex], {"!", ":", "("})
     /\ NoneOf(fields[scopeIndex], {")"})
     /\ NoneOf(fields[shortDescriptionIndex], {NL})) => FieldsRecovered

\* C2 amended: the same, for a type and a scope that also contain no newline.
C2_RoundTrip ==
    (/\ RoundTripped
     /\ NoneOf(fields[commitTypeIndex], {"!", ":", "(", NL})
     /\ NoneOf(fields[scopeIndex], {")", NL})
     /\ NoneOf(fields[shortDescriptionIndex], {NL})) => FieldsRecovered

\* C2 witness: type, scope, marker and description all present and recovered.
C2_Witness ==
    /\ RoundTripped
    /\ \A k \in Steps : fields[k] # NoText
    /\ NoneOf(fields[commitTypeIndex], {"!", ":", "(", NL})
    /\ NoneOf(fields[scopeIndex], {")", NL})
    /\ NoneOf(fields[shortDescriptionIndex], {NL})
    /\ hdr.header.Scope = fields[scopeIndex]
    /\ hdr.header.BreakingChange

Cancelled == lastKey.key \in {"ctrl+c", "ctrl+d"}

\* C8: whatever was entered, handling Ctrl-C or Ctrl-D sends the empty string
\* on the choice channel, and main then exits with status 1.
C8_CancelSendsEmpty ==
    Cancelled =>
        /\ exitCode = NotExited => choice = <<NoText>>
        /\ exitCode # NotExited => exitCode = "1"

\* C9: Enter on an input step stores the step's component value in the step's
\* slot of model.commit, so a scope confirmed with Enter is in the message.
C9_EnterStoresValue ==
    (lastKey.key = "enter" /\ lastKey.at \in Steps) =>
        commit[lastKey.at] = entered[lastKey.at]

\* C10: model.viewing stays within commitTypeIndex..breakingChangeIndex, never
\* reaches doneIndex, and Enter never takes the os.Exit(1) branch.
C10_ViewingInRange ==
    /\ viewing \in commitTypeIndex..breakingChangeIndex
    /\ viewing # doneIndex
    /\ lastKey.key = "enter" => exitCode # "1"

\* C10 witness: Enter was pressed on the last step with a required field
\* missing, and the composer went back to that field.
C10_Witness ==
    /\ lastKey = [key |-> "enter", at |-> breakingChangeIndex]
    /\ ~quit
    /\ viewing = shortDescriptionIndex

====
